---- MODULE Spec2Model ----
(***************************************************************************)
(* TwentyQuestions: the game registry (gameMaster), the per-game turn      *)
(* state machine, the oracle JWT check and the server-sent-event fan-out   *)
(* of package game, as a state machine.                                    *)
(*                                                                         *)
(* Every HTTP request runs in its own goroutine.  A request is a process   *)
(* req[r] with a program counter; a step of the model is one stretch of    *)
(* handler code between two points where another goroutine can observe or  *)
(* change shared data.  Code under a sync.Mutex is split only where data   *)
(* it reads is also written by code that does not take that mutex.         *)
(***************************************************************************)
EXTENDS Integers, Sequences, FiniteSets, TLC

\* ---------------------------------------------------------------- bounds
\* Number of submit / verdict requests of one behaviour (each runs once).
MaxReqs == 3
\* Number of server-sent-event connections of one behaviour.
MaxClients == 2
\* The clock stops advancing at this hour.
MaxTime == 36
\* Hours per clock step.
TickHours == 12
\* Answered turns already played when the two racing submissions arrive.
MaxOld == 1

Reqs == 1..MaxReqs
Clients == 1..MaxClients

\* ------------------------------------------------------ program constants
gameState_AwaitingQuestion == 0
gameState_AwaitingAnswer == 1
gameState_GameOver == 2

\* time.Duration of a game and of its oracle token, in hours.
game_maxDuration == 24

StatusOK == 200
StatusBadRequest == 400
StatusUnauthorized == 401
StatusNotFound == 404
StatusInternalServerError == 500

\* ----------------------------------------------------------- input sets
GameIDs == {"g1", "g2"}
Keys == {"k1", "k2"}
\* Form value "response": empty or not.
Texts == {"", "x"}
\* Signing methods of a presented token; "malformed" is a string that does
\* not parse as a JWT at all.
SigningMethodHMAC == {"HS512"}
Algs == {"HS512", "none", "malformed"}
Subjects == {"oracle", "guesser"}

VARIABLES
    now,                 \* wall clock, hours
    gameMap,             \* master.gameMap: the registered game ids
    expiryAt,            \* per game: when its deletion timer fires
    oracleCookie,        \* per game: the cookie newGame set on the creator
    oracleJWTKey,        \* GameData.oracleJWTKey
    gameState,           \* GameData.gameState
    gameStateMutex,      \* GameData.gameStateMutex: 0 or the holding request
    questionAnswerPairs, \* GameData.questionAnswerPairs
    allResponsesHTML,    \* GameData.allResponsesHTML: a sequence of fragments
    sseClients,          \* GameData.sseClients: a sequence of client ids
    sseClientsMutex,     \* GameData.sseClientsMutex: 0 or the holding request
    client,              \* the sseClient objects and their SSE handlers
    req,                 \* the submit / verdict / page requests
    storeCount,          \* history: assignments to allResponsesHTML so far
    cleanup              \* per game: the outcome of its gameCleanup call

registryVars == <<gameMap, expiryAt, oracleCookie, oracleJWTKey>>
turnVars == <<gameState, questionAnswerPairs>>
hubVars == <<allResponsesHTML, sseClients, client>>
gameVars == <<gameState, gameStateMutex, questionAnswerPairs, allResponsesHTML,
              sseClients, sseClientsMutex, client, storeCount, cleanup>>
vars == <<now, gameMap, expiryAt, oracleCookie, oracleJWTKey, gameState,
          gameStateMutex, questionAnswerPairs, allResponsesHTML, sseClients,
          sseClientsMutex, client, req, storeCount, cleanup>>

\* ------------------------------------------------------------- JWT, cookies
\* jwt.RegisteredClaims signed with `key` by method `alg`.
Token(alg, key, iss, sub, exp) ==
    [alg |-> alg, key |-> key, iss |-> iss, sub |-> sub, exp |-> exp]

\* A string that is no JWT.
NoToken == Token("malformed", "k1", "g1", "guesser", 0)

\* Tokens a client can forge or replay: every method, signing key, issuer
\* and subject, expiring early or late.
Exps == {TickHours, MaxTime + TickHours}
Tokens == {Token(a, k, i, s, e) : a \in Algs \ {"malformed"}, k \in Keys,
                                  i \in GameIDs, s \in Subjects, e \in Exps}
          \cup {NoToken}

NoCookies == {}

\* A request's cookies: a set of [name, value], at most one per name.
OneCookie(name, value) == {[name |-> name, value |-> value]}

\* http.Request.Cookie(name): err == http.ErrNoCookie
ErrNoCookie(jar, name) == ~ \E c \in jar : c.name = name

CookieValue(jar, name) == (CHOOSE c \in jar : c.name = name).value

\* Name of the cookie newGame stores the token under.
OracleCookieName(g) == "oracleToken-" \o g

\* HMAC verification of the token's signature against the key the keyfunc
\* returns; a token of another method (none) is refused with a []byte key.
SignatureInvalid(tok, key) == tok.alg \notin SigningMethodHMAC \/ tok.key # key

TokenExpired_never(tok, t) == FALSE

\* jwt validator: exp is checked with now.Before(exp).
TokenExpired(tok, t) == ~(t < tok.exp)

\* jwt.ParseWithClaims returns err != nil (or a token that is not Valid).
ParseError(tok, key, t) ==
    \/ tok.alg = "malformed"
    \/ SignatureInvalid(tok, key)
    \/ TokenExpired(tok, t)

ClaimsMismatch_subjectOnly(tok, g) == tok.sub # "oracle"

ClaimsMismatch(tok, g) == tok.iss # g \/ tok.sub # "oracle"

checkRequestFromOracle(g, jar, t) ==
    IF ErrNoCookie(jar, g) THEN FALSE
    ELSE LET tok == CookieValue(jar, g) IN
         IF ParseError(tok, oracleJWTKey[g], t) THEN FALSE
         ELSE IF ClaimsMismatch(tok, g) THEN FALSE
         ELSE TRUE

\* --------------------------------------------------------------- rendering
\* gameItem.html over the question answer pairs, newlines removed: one
\* fragment per pair.
RenderItems(pairs) ==
    [k \in 1..Len(pairs) |->
        <<"item", pairs[k].Index, pairs[k].Question, pairs[k].Answer>>]

\* gameOver.html over the verdict.
RenderGameOver(correct) == <<  <<"over", correct>>  >>

\* ---------------------------------------------------------------- records
\* html is the handler's template buffer and, in the loop of
\* sendClientsResponseHTML, the evaluated operand of the channel send; ver
\* is the history number of the rendering in html; renderErr records that
\* ExecuteTemplate returned an error to the handler.
IdleReq ==
    [pc |-> "idle", kind |-> "none", game |-> "none", jar |-> NoCookies,
     text |-> "", isOracle |-> FALSE, status |-> 0, html |-> <<>>, ver |-> 0,
     i |-> 0, sent |-> <<>>, pruned |-> {}, renderErr |-> FALSE]

\* What a client's channel delivered: who sent it ("init" or the kind of the
\* publishing request), the rendering, and its history number.
Delivery(from, html, ver) == [from |-> from, html |-> html, ver |-> ver]

\* ctxDone: the request context is cancelled; closed: responsesChannel is
\* closed; payload: the evaluated operand of the initial send.  History of
\* the channel: received (the deliveries in order), closes (close calls),
\* removals (times taken out of sseClients), sendOnClosed (a send found
\* the channel closed).
IdleClient ==
    [pc |-> "idle", game |-> "none", ctxDone |-> FALSE, closed |-> FALSE,
     payload |-> Delivery("none", <<>>, 0), received |-> <<>>, closes |-> 0,
     removals |-> 0, sendOnClosed |-> FALSE]

\* A request arrives only after the requests before it (they are
\* interchangeable).
NextReq(r) == req[r].pc = "idle" /\ \A q \in Reqs : q < r => req[q].pc # "idle"

NextClient(c) ==
    client[c].pc = "idle" /\ \A d \in Clients : d < c => client[d].pc # "idle"

\* The cookies a browser can present to game g in the game specification:
\* none, or the game's token under the name the check reads.
GameJars(g) ==
    {NoCookies, OneCookie(g, oracleCookie[g].value)}

\* ------------------------------------------------------------- the registry
\* The token newGame signs for game g with key k at time t, and the cookie
\* it sets on the creator's browser.
OracleToken(g, k, t) == Token("HS512", k, g, "oracle", t + game_maxDuration)

OracleCookie(g, k, t) ==
    [name |-> OracleCookieName(g), value |-> OracleToken(g, k, t)]

NoCookie == [name |-> "", value |-> NoToken]

\* The registry after NewGameRouter: no games.
InitMaster ==
    /\ now = 0
    /\ gameMap = {}
    /\ expiryAt = [g \in GameIDs |-> 0]
    /\ oracleCookie = [g \in GameIDs |-> NoCookie]
    /\ oracleJWTKey = [g \in GameIDs |-> "nokey"]
    /\ gameState = [g \in GameIDs |-> gameState_AwaitingQuestion]
    /\ gameStateMutex = [g \in GameIDs |-> 0]
    /\ questionAnswerPairs = [g \in GameIDs |-> <<>>]
    /\ allResponsesHTML = [g \in GameIDs |-> <<>>]
    /\ sseClients = [g \in GameIDs |-> <<>>]
    /\ sseClientsMutex = [g \in GameIDs |-> 0]
    /\ client = [c \in Clients |-> IdleClient]
    /\ req = [r \in Reqs |-> IdleReq]
    /\ storeCount = [g \in GameIDs |-> 0]
    /\ cleanup = [g \in GameIDs |-> "none"]

\* handleGame holds gameMapMutex.RLock from the lookup until the game's
\* router has served the request: a submit or verdict request until its
\* handler returns, a server-sent-event request until its context is done
\* (or its handler panicked).
HandlerRunning ==
    \/ \E r \in Reqs : req[r].pc \notin {"idle", "done"}
    \/ \E c \in Clients :
           \/ client[c].pc \in {"init", "initSend"}
           \/ client[c].pc = "wait" /\ ~client[c].ctxDone

\* gameMapMutex.Lock() returns: no reader holds the mutex.
gameMapMutexFree == ~HandlerRunning

GameIDTaken_unchecked(g) == FALSE

\* The loop of newGame draws another id while the drawn one is in the map.
GameIDTaken(g) == g \in gameMap

\* newGame: under the registry lock, an id that is not in the map and a
\* fresh random key; the token and its cookie; the game data as newGameData
\* builds it; the deletion timer.
newGame(g, k) ==
    /\ gameMapMutexFree
    /\ ~GameIDTaken(g)
    /\ gameMap' = gameMap \cup {g}
    /\ expiryAt' = [expiryAt EXCEPT ![g] = now + game_maxDuration]
    /\ oracleCookie' = [oracleCookie EXCEPT ![g] = OracleCookie(g, k, now)]
    /\ oracleJWTKey' = [oracleJWTKey EXCEPT ![g] = k]
    /\ gameState' = [gameState EXCEPT ![g] = gameState_AwaitingQuestion]
    /\ gameStateMutex' = [gameStateMutex EXCEPT ![g] = 0]
    /\ questionAnswerPairs' = [questionAnswerPairs EXCEPT ![g] = <<>>]
    /\ allResponsesHTML' = [allResponsesHTML EXCEPT ![g] = <<>>]
    /\ sseClients' = [sseClients EXCEPT ![g] = <<>>]
    /\ sseClientsMutex' = [sseClientsMutex EXCEPT ![g] = 0]
    /\ storeCount' = [storeCount EXCEPT ![g] = 0]
    /\ cleanup' = [cleanup EXCEPT ![g] = "none"]
    /\ UNCHANGED <<now, client, req>>

\* <-time.After(game_maxDuration) has fired for the game.
TimerFired_atOnce(g) == TRUE

TimerFired(g) == now >= expiryAt[g]

deleteGame_clearsMap(g) ==
    /\ g \in gameMap
    /\ TimerFired(g)
    /\ gameMapMutexFree
    /\ gameMap' = {}
    /\ UNCHANGED <<now, expiryAt, oracleCookie, oracleJWTKey, gameVars, req>>

\* The goroutine newGame starts: after game_maxDuration, delete the game,
\* under the registry lock.
deleteGame(g) ==
    /\ g \in gameMap
    /\ TimerFired(g)
    /\ gameMapMutexFree
    /\ gameMap' = gameMap \ {g}
    /\ UNCHANGED <<now, expiryAt, oracleCookie, oracleJWTKey, gameVars, req>>

Tick ==
    /\ now < MaxTime
    /\ now' = now + TickHours
    /\ UNCHANGED <<registryVars, gameVars, req>>

GameFound_always(g) == TRUE

\* handleGame: the lookup of the id in the map, under the read lock.
GameFound(g) == g \in gameMap

\* handleGame when the id is not in the map.
handleGameNotFound(r, g) ==
    /\ NextReq(r)
    /\ ~GameFound(g)
    /\ req' = [req EXCEPT ![r] = [IdleReq EXCEPT !.pc = "done", !.kind = "any",
                  !.game = g, !.status = StatusNotFound]]
    /\ UNCHANGED <<now, registryVars, gameVars>>

\* The request is done and forgotten; its slot serves the next request.
forget(r) ==
    /\ req[r].pc = "done"
    /\ req' = [req EXCEPT ![r] = IdleReq]
    /\ UNCHANGED <<now, registryVars, gameVars>>

\* The request record renderGameBase leaves: the page, rendered with the
\* IsOracle value the middleware put in the context.
renderGameBaseResponse(g, jar) ==
    [IdleReq EXCEPT !.pc = "done", !.kind = "base",
                    !.game = g, !.jar = jar, !.status = StatusOK,
                    !.isOracle = checkRequestFromOracle(g, jar, now)]

\* GET /{gameID}/ : the middleware, then the page with IsOracle.
renderGameBase(r, g, jar) ==
    /\ NextReq(r)
    /\ GameFound(g)
    /\ req' = [req EXCEPT ![r] = renderGameBaseResponse(g, jar)]
    /\ UNCHANGED <<now, registryVars, gameVars>>

\* ------------------------------------------------------ the turn state machine
gameStateMutexFree_noLock(g) == TRUE

gameStateMutexFree(g) == gameStateMutex[g] = 0

NotAwaitingQuestion_unchecked(g) == FALSE

NotAwaitingQuestion(g) == gameState[g] # gameState_AwaitingQuestion

NotAwaitingAnswer_unchecked(g) == FALSE

NotAwaitingAnswer(g) == gameState[g] # gameState_AwaitingAnswer

\* The handler a response is routed to.
RouteResponse_swapped(isOracle) ==
    IF isOracle THEN "addNextQuestion" ELSE "addNextAnswer"

RouteResponse(isOracle) ==
    IF isOracle THEN "addNextAnswer" ELSE "addNextQuestion"

EmptyResponse_unchecked(text) == FALSE

\* len(response) == 0
EmptyResponse(text) == text = ""

\* The request record after the middleware and the first check of
\* handleNewResponse: refused with 400, or on its way to addNextAnswer or
\* addNextQuestion.
handleNewResponseFirstCheck(g, text, jar) ==
    LET isOracle == checkRequestFromOracle(g, jar, now)
        started == [IdleReq EXCEPT !.kind = "submit", !.game = g,
                       !.jar = jar, !.text = text, !.isOracle = isOracle]
    IN IF EmptyResponse(text) \/ gameState[g] = gameState_GameOver
       THEN [started EXCEPT !.pc = "done", !.status = StatusBadRequest]
       ELSE [started EXCEPT !.pc = RouteResponse(isOracle)]

\* POST /{gameID}/submitResponse : the middleware, the form value and the
\* first check of handleNewResponse.  A request refused here keeps its text
\* in its record.
handleNewResponse(r, g, text, jar) ==
    /\ NextReq(r)
    /\ GameFound(g)
    /\ req' = [req EXCEPT ![r] = handleNewResponseFirstCheck(g, text, jar)]
    /\ UNCHANGED <<now, registryVars, gameVars>>

addNextQuestionEnter_lateCheck(r) ==
    LET g == req[r].game
        nextQApair == [Index |-> Len(questionAnswerPairs[g]) + 1,
                       Question |-> req[r].text, Answer |-> ""]
    IN
    /\ req[r].pc = "addNextQuestion"
    /\ gameStateMutexFree(g)
    /\ questionAnswerPairs' =
           [questionAnswerPairs EXCEPT ![g] = Append(@, nextQApair)]
    /\ IF NotAwaitingQuestion(g)
       THEN /\ req' = [req EXCEPT ![r].pc = "done",
                                  ![r].status = StatusBadRequest]
            /\ UNCHANGED <<gameStateMutex, gameState>>
       ELSE /\ req' = [req EXCEPT ![r].pc = "render", ![r].status = StatusOK,
                                  ![r].text = ""]
            /\ gameState' = [gameState EXCEPT ![g] = gameState_AwaitingAnswer]
            /\ UNCHANGED gameStateMutex
    /\ UNCHANGED <<now, registryVars, storeCount, cleanup,
                   allResponsesHTML, sseClients, sseClientsMutex, client>>

\* addNextQuestion up to its state check, under gameStateMutex.  A request
\* refused keeps its text in its record.
addNextQuestionEnter(r) ==
    LET g == req[r].game IN
    /\ req[r].pc = "addNextQuestion"
    /\ gameStateMutexFree(g)
    /\ IF NotAwaitingQuestion(g)
       THEN /\ req' = [req EXCEPT ![r].pc = "done",
                                  ![r].status = StatusBadRequest]
            /\ UNCHANGED gameStateMutex
       ELSE /\ req' = [req EXCEPT ![r].pc = "addNextQuestionWrite"]
            /\ gameStateMutex' = [gameStateMutex EXCEPT ![g] = r]
    /\ UNCHANGED <<now, registryVars, storeCount, cleanup, gameState, questionAnswerPairs,
                   allResponsesHTML, sseClients, sseClientsMutex, client>>

NextIndex_zeroBased(pairs) == Len(pairs)

\* Index: len(data.questionAnswerPairs) + 1
NextIndex(pairs) == Len(pairs) + 1

addNextQuestionWrite_keepsState(r) ==
    LET g == req[r].game
        nextQApair == [Index |-> NextIndex(questionAnswerPairs[g]),
                       Question |-> req[r].text, Answer |-> ""]
    IN
    /\ req[r].pc = "addNextQuestionWrite"
    /\ questionAnswerPairs' =
           [questionAnswerPairs EXCEPT ![g] = Append(@, nextQApair)]
    /\ gameStateMutex' = [gameStateMutex EXCEPT ![g] = 0]
    /\ req' = [req EXCEPT ![r].pc = "render", ![r].status = StatusOK,
                          ![r].text = ""]
    /\ UNCHANGED <<now, registryVars, storeCount, cleanup, gameState,
                   allResponsesHTML, sseClients, sseClientsMutex, client>>

addNextQuestionWrite_stateOnly(r) ==
    LET g == req[r].game IN
    /\ req[r].pc = "addNextQuestionWrite"
    /\ gameState' = [gameState EXCEPT ![g] = gameState_AwaitingAnswer]
    /\ gameStateMutex' = [gameStateMutex EXCEPT ![g] = 0]
    /\ req' = [req EXCEPT ![r].pc = "render", ![r].status = StatusOK,
                          ![r].text = ""]
    /\ UNCHANGED <<now, registryVars, storeCount, cleanup, questionAnswerPairs,
                   allResponsesHTML, sseClients, sseClientsMutex, client>>

\* addNextQuestion after its state check: append, change state, unlock;
\* then WriteHeader(200).
addNextQuestionWrite(r) ==
    LET g == req[r].game
        nextQApair == [Index |-> NextIndex(questionAnswerPairs[g]),
                       Question |-> req[r].text, Answer |-> ""]
    IN
    /\ req[r].pc = "addNextQuestionWrite"
    /\ questionAnswerPairs' =
           [questionAnswerPairs EXCEPT ![g] = Append(@, nextQApair)]
    /\ gameState' = [gameState EXCEPT ![g] = gameState_AwaitingAnswer]
    /\ gameStateMutex' = [gameStateMutex EXCEPT ![g] = 0]
    /\ req' = [req EXCEPT ![r].pc = "render", ![r].status = StatusOK,
                          ![r].text = ""]
    /\ UNCHANGED <<now, registryVars, storeCount, cleanup, allResponsesHTML, sseClients,
                   sseClientsMutex, client>>

\* addNextAnswer up to its state check, under gameStateMutex.
addNextAnswerEnter(r) ==
    LET g == req[r].game IN
    /\ req[r].pc = "addNextAnswer"
    /\ gameStateMutexFree(g)
    /\ IF NotAwaitingAnswer(g)
       THEN /\ req' = [req EXCEPT ![r].pc = "done",
                                  ![r].status = StatusBadRequest]
            /\ UNCHANGED gameStateMutex
       ELSE /\ req' = [req EXCEPT ![r].pc = "addNextAnswerWrite"]
            /\ gameStateMutex' = [gameStateMutex EXCEPT ![g] = r]
    /\ UNCHANGED <<now, registryVars, storeCount, cleanup, gameState, questionAnswerPairs,
                   allResponsesHTML, sseClients, sseClientsMutex, client>>

addNextAnswerWrite_keepsState(r) ==
    LET g == req[r].game
        n == Len(questionAnswerPairs[g])
    IN
    /\ req[r].pc = "addNextAnswerWrite"
    /\ gameStateMutex' = [gameStateMutex EXCEPT ![g] = 0]
    /\ IF n = 0
       THEN /\ req' = [req EXCEPT ![r].pc = "done", ![r].text = "",
                                  ![r].status = StatusInternalServerError]
            /\ UNCHANGED questionAnswerPairs
       ELSE /\ questionAnswerPairs' =
                   [questionAnswerPairs EXCEPT ![g][n].Answer = req[r].text]
            /\ req' = [req EXCEPT ![r].pc = "render", ![r].status = StatusOK,
                                  ![r].text = ""]
    /\ UNCHANGED <<now, registryVars, storeCount, cleanup, gameState,
                   allResponsesHTML, sseClients, sseClientsMutex, client>>

\* addNextAnswer after its state check: the answer goes to the last pair.
\* Indexing the last pair of an empty slice panics; the deferred Unlock
\* runs and the recover middleware answers 500.
addNextAnswerWrite(r) ==
    LET g == req[r].game
        n == Len(questionAnswerPairs[g])
    IN
    /\ req[r].pc = "addNextAnswerWrite"
    /\ gameStateMutex' = [gameStateMutex EXCEPT ![g] = 0]
    /\ IF n = 0
       THEN /\ req' = [req EXCEPT ![r].pc = "done", ![r].text = "",
                                  ![r].status = StatusInternalServerError]
            /\ UNCHANGED <<gameState, questionAnswerPairs>>
       ELSE /\ questionAnswerPairs' =
                   [questionAnswerPairs EXCEPT ![g][n].Answer = req[r].text]
            /\ gameState' = [gameState EXCEPT ![g] = gameState_AwaitingQuestion]
            /\ req' = [req EXCEPT ![r].pc = "render", ![r].status = StatusOK,
                                  ![r].text = ""]
    /\ UNCHANGED <<now, registryVars, storeCount, cleanup, allResponsesHTML, sseClients,
                   sseClientsMutex, client>>

\* handleNewResponse: gameItem.html is executed over the pairs into a buffer.
renderResponses(r) ==
    LET g == req[r].game IN
    /\ req[r].pc = "render"
    /\ req' = [req EXCEPT ![r].pc = "store",
                          ![r].html = RenderItems(questionAnswerPairs[g])]
    /\ UNCHANGED <<now, registryVars, gameVars>>

\* handleNewResponse: the buffer replaces allResponsesHTML.
storeResponses(r) ==
    LET g == req[r].game IN
    /\ req[r].pc = "store"
    /\ allResponsesHTML' = [allResponsesHTML EXCEPT ![g] = req[r].html]
    /\ storeCount' = [storeCount EXCEPT ![g] = @ + 1]
    /\ req' = [req EXCEPT ![r].pc = "send", ![r].html = <<>>]
    /\ UNCHANGED <<now, registryVars, cleanup, gameState, gameStateMutex,
                   questionAnswerPairs, sseClients, sseClientsMutex, client>>

\* ------------------------------------------------------------ the verdicts
AlreadyGameOver(g) == gameState[g] = gameState_GameOver

NotOracle_unchecked(isOracle) == FALSE

NotOracle(isOracle) == ~isOracle

\* The request record after the middleware and the two checks of a verdict
\* handler.
oracleVerdictChecks(g, correct, jar) ==
    LET isOracle == checkRequestFromOracle(g, jar, now)
        started == [IdleReq EXCEPT
                       !.kind = IF correct THEN "correct" ELSE "incorrect",
                       !.game = g, !.jar = jar, !.isOracle = isOracle]
    IN IF NotOracle(isOracle)
       THEN [started EXCEPT !.pc = "done", !.status = StatusUnauthorized]
       ELSE IF AlreadyGameOver(g)
       THEN [started EXCEPT !.pc = "done", !.status = StatusBadRequest]
       ELSE [started EXCEPT !.pc = "verdictWrite"]

\* oracleVerdictCorrect / oracleVerdictIncorrect up to the two checks: 401
\* unless the middleware found the oracle, 400 if the game is over.
oracleVerdict(r, g, correct, jar) ==
    /\ NextReq(r)
    /\ GameFound(g)
    /\ req' = [req EXCEPT ![r] = oracleVerdictChecks(g, correct, jar)]
    /\ UNCHANGED <<now, registryVars, gameVars>>

oracleVerdictCorrect(r, g, jar) == oracleVerdict(r, g, TRUE, jar)

oracleVerdictIncorrect(r, g, jar) == oracleVerdict(r, g, FALSE, jar)

\* The verdict handlers write gameState without taking gameStateMutex, then
\* execute gameOver.html into a buffer.
verdictWrite(r) ==
    LET g == req[r].game IN
    /\ req[r].pc = "verdictWrite"
    /\ gameState' = [gameState EXCEPT ![g] = gameState_GameOver]
    /\ req' = [req EXCEPT ![r].pc = "verdictStore",
                          ![r].html = RenderGameOver(req[r].kind = "correct")]
    /\ UNCHANGED <<now, registryVars, storeCount, cleanup, gameStateMutex, questionAnswerPairs,
                   allResponsesHTML, sseClients, sseClientsMutex, client>>

\* The buffer is appended to allResponsesHTML.
verdictStore(r) ==
    LET g == req[r].game IN
    /\ req[r].pc = "verdictStore"
    /\ allResponsesHTML' = [allResponsesHTML EXCEPT ![g] = @ \o req[r].html]
    /\ storeCount' = [storeCount EXCEPT ![g] = @ + 1]
    /\ req' = [req EXCEPT ![r].pc = "send", ![r].html = <<>>]
    /\ UNCHANGED <<now, registryVars, cleanup, gameState, gameStateMutex,
                   questionAnswerPairs, sseClients, sseClientsMutex, client>>

\* The handler returns; a handler that wrote no header answers 200.  Of a
\* finished request only the response is kept.
Returned(rec) ==
    [IdleReq EXCEPT !.pc = "done", !.kind = rec.kind, !.game = rec.game,
                    !.jar = rec.jar, !.isOracle = rec.isOracle,
                    !.status = IF rec.status = 0 THEN StatusOK ELSE rec.status]

\* ------------------------------------------------------ a rendering that fails
\* The templates are parsed once, with template.Must, and executed over
\* data of fixed types, so ExecuteTemplate is taken to succeed wherever the
\* actions below are not part of the specification.
renderFails_noReturn(r) ==
    /\ req[r].pc = "render"
    /\ req' = [req EXCEPT ![r].pc = "store", ![r].html = <<>>,
                          ![r].renderErr = TRUE]
    /\ UNCHANGED <<now, registryVars, gameVars>>

\* handleNewResponse: ExecuteTemplate returns an error; the handler logs it
\* and returns, the buffer dropped.  The header (200) is written already.
renderFails(r) ==
    /\ req[r].pc = "render"
    /\ req' = [req EXCEPT ![r] = [Returned(req[r]) EXCEPT !.renderErr = TRUE]]
    /\ UNCHANGED <<now, registryVars, gameVars>>

\* oracleVerdictCorrect / oracleVerdictIncorrect: gameState is written, then
\* ExecuteTemplate returns an error; the handler logs it and returns.
verdictRenderFails(r) ==
    LET g == req[r].game IN
    /\ req[r].pc = "verdictWrite"
    /\ gameState' = [gameState EXCEPT ![g] = gameState_GameOver]
    /\ req' = [req EXCEPT ![r] = [Returned(req[r]) EXCEPT !.renderErr = TRUE]]
    /\ UNCHANGED <<now, registryVars, storeCount, cleanup, gameStateMutex, questionAnswerPairs,
                   allResponsesHTML, sseClients, sseClientsMutex, client>>

\* --------------------------------------------------------------- the fan-out
SpliceOut_truncateOnly(clients, i) == SubSeq(clients, 1, Len(clients) - 1)

\* data.sseClients[i] = last; data.sseClients = data.sseClients[:len-1]
\* (i counts from 0).
SpliceOut(clients, i) ==
    SubSeq([clients EXCEPT ![i + 1] = clients[Len(clients)]], 1, Len(clients) - 1)

\* select on the client's context: the Done case is taken.
ContextDone(c) == client[c].ctxDone

\* The payload of one channel send of the loop.
SendPayload(g) == allResponsesHTML[g]

\* Where the loop of sendClientsResponseHTML goes after an iteration that
\* left request record rec2 and client list clients2: to the next iteration,
\* or out of the loop, where the deferred Unlock runs.
LoopNext(r, g, rec2, clients2) ==
    IF rec2.i < Len(clients2)
    THEN /\ req' = [req EXCEPT ![r] = [rec2 EXCEPT !.pc = "sendLoop"]]
         /\ sseClientsMutex' = [sseClientsMutex EXCEPT ![g] = r]
    ELSE /\ req' = [req EXCEPT ![r] = [rec2 EXCEPT !.pc = "return"]]
         /\ sseClientsMutex' = [sseClientsMutex EXCEPT ![g] = 0]

\* A panic inside sendClientsResponseHTML: the deferred Unlock runs and the
\* recover middleware answers 500, unless the handler has written its
\* header already.
LoopPanic(r, g, rec) ==
    /\ req' = [req EXCEPT ![r] = [rec EXCEPT !.pc = "return", !.html = <<>>,
                  !.ver = 0,
                  !.status = IF @ = 0 THEN StatusInternalServerError ELSE @]]
    /\ sseClientsMutex' = [sseClientsMutex EXCEPT ![g] = 0]

AfterSplice_increment(i) == i + 1

\* The index the loop looks at after a splice: the same again ("don't update
\* i"), where the last client now is.
AfterSplice(i) == i

\* One iteration of the loop of sendClientsResponseHTML on sseClients[i], up
\* to the channel send.  A client whose context is done is closed and
\* spliced out, i unchanged (closing a closed channel panics).  For a live
\* client the operand of the send, the current allResponsesHTML, is
\* evaluated; the send itself is channelSend.  rec.sent and rec.pruned
\* record what this call delivered and removed.
LoopIteration(r, g, rec) ==
    LET i == rec.i
        currentClient == sseClients[g][i + 1]
    IN
    IF ContextDone(currentClient)
    THEN IF client[currentClient].closed
         THEN /\ client' = [client EXCEPT ![currentClient].closes = @ + 1]
              /\ UNCHANGED sseClients
              /\ LoopPanic(r, g, rec)
         ELSE /\ client' = [client EXCEPT ![currentClient].closed = TRUE,
                                          ![currentClient].closes = @ + 1,
                                          ![currentClient].removals = @ + 1]
              /\ sseClients' = [sseClients EXCEPT ![g] = SpliceOut(@, i)]
              /\ LoopNext(r, g,
                          [rec EXCEPT !.pruned = @ \cup {currentClient},
                                      !.i = AfterSplice(i)],
                          SpliceOut(sseClients[g], i))
    ELSE /\ req' = [req EXCEPT ![r] = [rec EXCEPT !.pc = "channelSend",
                       !.html = SendPayload(g), !.ver = storeCount[g]]]
         /\ sseClientsMutex' = [sseClientsMutex EXCEPT ![g] = r]
         /\ UNCHANGED <<sseClients, client>>

\* currentClient.responsesChannel <- (the evaluated operand); i += 1.  The
\* goroutine that ranges over the channel receives it.  A send on a closed
\* channel panics.
channelSend(r) ==
    LET g == req[r].game
        rec == req[r]
        currentClient == sseClients[g][rec.i + 1]
    IN
    /\ rec.pc = "channelSend"
    /\ IF client[currentClient].closed
       THEN /\ client' = [client EXCEPT ![currentClient].sendOnClosed = TRUE]
            /\ LoopPanic(r, g, rec)
       ELSE /\ client' = [client EXCEPT ![currentClient].received =
                             Append(@, Delivery(rec.kind, rec.html, rec.ver))]
            /\ LoopNext(r, g,
                        [rec EXCEPT !.i = @ + 1, !.html = <<>>, !.ver = 0,
                            !.sent = Append(@, <<currentClient, rec.html>>)],
                        sseClients[g])
    /\ UNCHANGED <<now, registryVars, storeCount, cleanup, gameState,
                   gameStateMutex, questionAnswerPairs, allResponsesHTML,
                   sseClients>>

\* sendClientsResponseHTML: Lock, i := 0, and the first iteration.  With no
\* clients the loop ends at once, the deferred Unlock runs and the handler
\* returns.
sendLock(r) ==
    LET g == req[r].game IN
    /\ req[r].pc = "send"
    /\ sseClientsMutex[g] = 0
    /\ IF Len(sseClients[g]) = 0
       THEN /\ req' = [req EXCEPT ![r] = Returned(req[r])]
            /\ UNCHANGED <<sseClientsMutex, sseClients, client>>
       ELSE LoopIteration(r, g, [req[r] EXCEPT !.i = 0])
    /\ UNCHANGED <<now, registryVars, storeCount, cleanup, gameState,
                   gameStateMutex, questionAnswerPairs, allResponsesHTML>>

\* The later iterations, the mutex held.
sendLoop(r) ==
    LET g == req[r].game IN
    /\ req[r].pc = "sendLoop"
    /\ LoopIteration(r, g, req[r])
    /\ UNCHANGED <<now, registryVars, storeCount, cleanup, gameState,
                   gameStateMutex, questionAnswerPairs, allResponsesHTML>>

\* The handler returns after a sendClientsResponseHTML that had clients.
handlerReturn(r) ==
    /\ req[r].pc = "return"
    /\ req' = [req EXCEPT ![r] = Returned(req[r])]
    /\ UNCHANGED <<now, registryVars, gameVars>>

\* No submit or verdict request is being handled.
NoRequestInFlight == \A r \in Reqs : req[r].pc \in {"idle", "done"}

\* The submissions of game g that were accepted (200 is written right after
\* addNextQuestion / addNextAnswer returned nil).
AcceptedSubmissions(g) ==
    {r \in Reqs : req[r].kind = "submit" /\ req[r].game = g
                  /\ req[r].status = StatusOK}

\* The append without sseClientsMutex: a data race with the loop of
\* sendClientsResponseHTML when that is under way.  The append then falls
\* before or after a splice, or between the two assignments of a splice,
\* whose truncation drops the appended client.
responsesSourceSSE_noLock(c, g) ==
    /\ NextClient(c)
    /\ GameFound(g)
    /\ client' = [client EXCEPT ![c] = [IdleClient EXCEPT !.pc = "init", !.game = g]]
    /\ IF sseClientsMutex[g] = 0
       THEN sseClients' = [sseClients EXCEPT ![g] = Append(@, c)]
       ELSE \E lost \in BOOLEAN :
               sseClients' = [sseClients EXCEPT ![g] =
                                 IF lost THEN @ ELSE Append(@, c)]
    /\ UNCHANGED <<now, registryVars, storeCount, cleanup, gameState,
                   gameStateMutex, questionAnswerPairs, allResponsesHTML,
                   sseClientsMutex, req>>

\* GET /{gameID}/responsesSourceSSE up to the Unlock: a new sseClient with the
\* request's context and a fresh channel is appended under sseClientsMutex.
responsesSourceSSE(c, g) ==
    /\ NextClient(c)
    /\ GameFound(g)
    /\ sseClientsMutex[g] = 0
    /\ client' = [client EXCEPT ![c] = [IdleClient EXCEPT !.pc = "init", !.game = g]]
    /\ sseClients' = [sseClients EXCEPT ![g] = Append(@, c)]
    /\ UNCHANGED <<now, registryVars, storeCount, cleanup, gameState,
                   gameStateMutex, questionAnswerPairs, allResponsesHTML,
                   sseClientsMutex, req>>

\* responsesSourceSSE: the operand of the initial send, data.allResponsesHTML,
\* is evaluated, outside any mutex.
sseInitialRead(c) ==
    LET g == client[c].game IN
    /\ client[c].pc = "init"
    /\ client' = [client EXCEPT ![c].pc = "initSend",
           ![c].payload = Delivery("init", allResponsesHTML[g], storeCount[g])]
    /\ UNCHANGED <<now, registryVars, storeCount, cleanup, gameState,
                   gameStateMutex, questionAnswerPairs, allResponsesHTML,
                   sseClients, sseClientsMutex, req>>

\* responsesSourceSSE: the initial send on the channel, outside the mutex;
\* then the handler waits for <-r.Context().Done().  On a closed channel the
\* send panics and the request ends.
sseInitialSend(c) ==
    /\ client[c].pc = "initSend"
    /\ client' = [client EXCEPT ![c] =
                     IF client[c].closed
                     THEN [@ EXCEPT !.pc = "panic", !.ctxDone = TRUE,
                                    !.sendOnClosed = TRUE,
                                    !.payload = IdleClient.payload]
                     ELSE [@ EXCEPT !.pc = "wait",
                                    !.received = Append(@, client[c].payload),
                                    !.payload = IdleClient.payload]]
    /\ UNCHANGED <<now, registryVars, storeCount, cleanup, gameState,
                   gameStateMutex, questionAnswerPairs, allResponsesHTML,
                   sseClients, sseClientsMutex, req>>

\* The browser goes away: the request's context is cancelled.
disconnect(c) ==
    /\ client[c].pc \in {"init", "initSend", "wait"}
    /\ ~client[c].ctxDone
    /\ client' = [client EXCEPT ![c].ctxDone = TRUE]
    /\ UNCHANGED <<now, registryVars, storeCount, cleanup, gameState,
                   gameStateMutex, questionAnswerPairs, allResponsesHTML,
                   sseClients, sseClientsMutex, req>>

\* ------------------------------------------------------------- gameCleanup
\* The positions of the client list at which the loop of gameCleanup stops
\* with a panic: close on a channel that is closed already, or, the channel
\* closed, the default case of the select on a live context, which calls
\* cancelFunc, a field no code sets (a nil func).
CleanupPanicsAt(g) ==
    {k \in 1..Len(sseClients[g]) :
        \/ client[sseClients[g][k]].closed
        \/ ~ContextDone(sseClients[g][k])}

Max(S) == CHOOSE x \in S : \A y \in S : y <= x

gameCleanup_clearsTurns(g) ==
    LET L == sseClients[g]
        k0 == IF CleanupPanicsAt(g) = {} THEN 0 ELSE Max(CleanupPanicsAt(g))
        closedNow == {L[k] : k \in (k0 + 1)..Len(L)}
    IN
    /\ g \in gameMap
    /\ cleanup[g] = "none"
    /\ sseClientsMutex[g] = 0
    /\ questionAnswerPairs' = [questionAnswerPairs EXCEPT ![g] = <<>>]
    /\ IF k0 = 0
       THEN /\ cleanup' = [cleanup EXCEPT ![g] = "returned"]
            /\ sseClients' = [sseClients EXCEPT ![g] = <<>>]
            /\ client' = [c \in Clients |->
                   IF c \in closedNow
                   THEN [client[c] EXCEPT !.closed = TRUE, !.closes = @ + 1,
                                          !.removals = @ + 1]
                   ELSE client[c]]
       ELSE /\ cleanup' = [cleanup EXCEPT ![g] = "panic"]
            /\ UNCHANGED sseClients
            /\ client' = [c \in Clients |->
                   IF c \in closedNow \cup {L[k0]}
                   THEN [client[c] EXCEPT !.closed = TRUE, !.closes = @ + 1]
                   ELSE client[c]]
    /\ UNCHANGED <<now, registryVars, storeCount, gameState, gameStateMutex,
                   allResponsesHTML, sseClientsMutex, req>>

\* gameCleanup, whole, under sseClientsMutex: from the last client down,
\* close the channel and, if the context is not done, call cancelFunc; then
\* the list is replaced by an empty one.  A panic leaves the loop, the
\* deferred Unlock runs, and the list stays as it is.  Nothing but the
\* channels, the contexts and the list is touched, and a channel or a
\* context is touched by other code one client at a time, so the steps of
\* the loop are taken as one.
gameCleanup(g) ==
    LET L == sseClients[g]
        k0 == IF CleanupPanicsAt(g) = {} THEN 0 ELSE Max(CleanupPanicsAt(g))
        closedNow == {L[k] : k \in (k0 + 1)..Len(L)}
    IN
    /\ g \in gameMap
    /\ cleanup[g] = "none"
    /\ sseClientsMutex[g] = 0
    /\ IF k0 = 0
       THEN /\ cleanup' = [cleanup EXCEPT ![g] = "returned"]
            /\ sseClients' = [sseClients EXCEPT ![g] = <<>>]
            /\ client' = [c \in Clients |->
                   IF c \in closedNow
                   THEN [client[c] EXCEPT !.closed = TRUE, !.closes = @ + 1,
                                          !.removals = @ + 1]
                   ELSE client[c]]
       ELSE /\ cleanup' = [cleanup EXCEPT ![g] = "panic"]
            /\ UNCHANGED sseClients
            /\ client' = [c \in Clients |->
                   IF c \in closedNow \cup {L[k0]}
                   THEN [client[c] EXCEPT !.closed = TRUE, !.closes = @ + 1]
                   ELSE client[c]]
    /\ UNCHANGED <<now, registryVars, storeCount, gameState, gameStateMutex,
                   questionAnswerPairs, allResponsesHTML, sseClientsMutex, req>>

\* ------------------------------------------------------- the game, one game
\* One game "g1", just created by newGame at hour 0.
Init ==
    /\ now = 0
    /\ gameMap = {"g1"}
    /\ expiryAt = [g \in GameIDs |-> IF g = "g1" THEN game_maxDuration ELSE 0]
    /\ oracleCookie = [g \in GameIDs |->
           IF g = "g1" THEN OracleCookie("g1", "k1", 0) ELSE NoCookie]
    /\ oracleJWTKey = [g \in GameIDs |-> IF g = "g1" THEN "k1" ELSE "nokey"]
    /\ gameState = [g \in GameIDs |-> gameState_AwaitingQuestion]
    /\ gameStateMutex = [g \in GameIDs |-> 0]
    /\ questionAnswerPairs = [g \in GameIDs |-> <<>>]
    /\ allResponsesHTML = [g \in GameIDs |-> <<>>]
    /\ sseClients = [g \in GameIDs |-> <<>>]
    /\ sseClientsMutex = [g \in GameIDs |-> 0]
    /\ client = [c \in Clients |-> IdleClient]
    /\ req = [r \in Reqs |-> IdleReq]
    /\ storeCount = [g \in GameIDs |-> 0]
    /\ cleanup = [g \in GameIDs |-> "none"]

\* Requests arrive with a form value and cookies; a game nobody watches
\* over server-sent events has no clients, and the loop of
\* sendClientsResponseHTML has nothing to iterate.
Submit(R) == \E r \in R, g \in GameIDs, text \in Texts :
                 \E jar \in GameJars(g) : handleNewResponse(r, g, text, jar)
VerdictCorrect(R) == \E r \in R, g \in GameIDs :
                 \E jar \in GameJars(g) : oracleVerdictCorrect(r, g, jar)
VerdictIncorrect(R) == \E r \in R, g \in GameIDs :
                 \E jar \in GameJars(g) : oracleVerdictIncorrect(r, g, jar)

HandlerStep ==
    \E r \in Reqs :
        \/ addNextQuestionEnter(r)
        \/ addNextQuestionWrite(r)
        \/ addNextAnswerEnter(r)
        \/ addNextAnswerWrite(r)
        \/ renderResponses(r)
        \/ storeResponses(r)
        \/ sendLock(r)

VerdictStep == \E r \in Reqs : verdictWrite(r) \/ verdictStore(r)

Next ==
    \/ Submit(Reqs)
    \/ VerdictCorrect(Reqs)
    \/ VerdictIncorrect(Reqs)
    \/ HandlerStep
    \/ VerdictStep

Spec == Init /\ [][Next]_vars

\* ------------------------------------------------ the game with subscribers
MaxHubReqs == 2
HubReqs == 1..MaxHubReqs

Subscribe == \E c \in Clients, g \in GameIDs : responsesSourceSSE(c, g)

ClientStep ==
    \E c \in Clients : sseInitialRead(c) \/ sseInitialSend(c) \/ disconnect(c)

\* The steps of sendClientsResponseHTML on a list that is not empty.
SendStep == \E r \in Reqs : sendLoop(r) \/ channelSend(r) \/ handlerReturn(r)

\* Submissions, accepted and rejected, with up to MaxClients subscribers.
NextHub ==
    \/ Submit(HubReqs)
    \/ HandlerStep
    \/ SendStep
    \/ Subscribe
    \/ ClientStep

SpecHub == Init /\ [][NextHub]_vars

\* ------------------------------------------ the game with one subscriber
\* Submissions and verdicts with one server-sent-event connection.
FeedClients == {1}

SubscribeFeed == \E c \in FeedClients, g \in GameIDs : responsesSourceSSE(c, g)

\* The steps of sendClientsResponseHTML on a list of one client: the loop
\* has one iteration, which sendLock starts.
SendStepFeed == \E r \in Reqs : channelSend(r) \/ handlerReturn(r)

NextFeed ==
    \/ Submit(HubReqs)
    \/ VerdictCorrect(HubReqs)
    \/ VerdictIncorrect(HubReqs)
    \/ HandlerStep
    \/ VerdictStep
    \/ SendStepFeed
    \/ SubscribeFeed
    \/ ClientStep

SpecFeed == Init /\ [][NextFeed]_vars

\* ------------------------------------------------------ the game shut down
\* gameCleanup has no caller in the source.  It is called here at any time,
\* once; what a panic in it does to the process is the caller's business:
\* if the process ends, the behaviour ends there, and if the caller
\* recovers, the game goes on with the data gameCleanup left.
Cleanup == \E g \in GameIDs : gameCleanup(g)

NextShutdown == NextFeed \/ Cleanup

SpecShutdown == Init /\ [][NextShutdown]_vars

\* -------------------------------------------------------- the game expires
\* The game with its deletion timer, and requests for a game that is gone.
NextExpiry ==
    \/ NextFeed
    \/ Tick
    \/ \E g \in GameIDs : deleteGame(g)
    \/ \E r \in HubReqs, g \in GameIDs : handleGameNotFound(r, g)

SpecExpiry == Init /\ [][NextExpiry]_vars

\* The same for a game nobody watches over server-sent events.
NextTTL ==
    \/ Submit(HubReqs)
    \/ VerdictCorrect(HubReqs)
    \/ VerdictIncorrect(HubReqs)
    \/ HandlerStep
    \/ VerdictStep
    \/ Tick
    \/ \E g \in GameIDs : deleteGame(g)
    \/ \E r \in HubReqs, g \in GameIDs : handleGameNotFound(r, g)

SpecTTL == Init /\ [][NextTTL]_vars

\* ------------------------------------------------- the registry and the token
\* Cookie names a client can use.
CookieNames == GameIDs \cup {OracleCookieName(g) : g \in GameIDs}

\* The cookies a client can present: none, the cookie newGame set for some
\* game, or any token under any name.
AuthJars ==
    {NoCookies}
    \cup {{oracleCookie[g]} : g \in GameIDs}
    \cup {OneCookie(n, v) : n \in CookieNames, v \in Tokens}
    \cup {OneCookie(n, oracleCookie[g].value) : n \in CookieNames, g \in GameIDs}

\* One request at a time: the check reads only the request and the game's
\* id and key.
AuthReqs == {1}

NextAuth ==
    \/ \E g \in GameIDs, k \in Keys : newGame(g, k)
    \/ \E g \in GameIDs : deleteGame(g)
    \/ Tick
    \/ \E r \in AuthReqs, g \in GameIDs :
           \E jar \in AuthJars : renderGameBase(r, g, jar)
    \/ \E r \in AuthReqs, g \in GameIDs : handleGameNotFound(r, g)
    \/ \E r \in AuthReqs : forget(r)

SpecAuth == InitMaster /\ [][NextAuth]_vars

\* ------------------------------------------- two submissions of one kind race
RaceReqs == {1, 2}
RaceTexts == {"x", "y"}

\* Turns played before the race: answered ones, and the open one if the
\* game awaits an answer.
OldPairs(n, open) ==
    [k \in 1..(n + IF open THEN 1 ELSE 0) |->
        [Index |-> k, Question |-> "old",
         Answer |-> IF k <= n THEN "yes" ELSE ""]]

\* Game "g1" after n answered turns (and a question, if open); requests 1
\* and 2 are both past the first check of handleNewResponse with responses
\* of the kind the game awaits.
InitRace ==
    \E n \in 0..MaxOld, open \in BOOLEAN, t1 \in RaceTexts, t2 \in RaceTexts :
        LET jar == IF open THEN OneCookie("g1", OracleToken("g1", "k1", 0))
                   ELSE NoCookies
            started(t) == [IdleReq EXCEPT !.kind = "submit", !.game = "g1",
                              !.jar = jar, !.text = t, !.isOracle = open,
                              !.pc = RouteResponse(open)]
        IN
        /\ now = 0
        /\ gameMap = {"g1"}
        /\ expiryAt = [g \in GameIDs |-> IF g = "g1" THEN game_maxDuration ELSE 0]
        /\ oracleCookie = [g \in GameIDs |->
               IF g = "g1" THEN OracleCookie("g1", "k1", 0) ELSE NoCookie]
        /\ oracleJWTKey = [g \in GameIDs |-> IF g = "g1" THEN "k1" ELSE "nokey"]
        /\ gameState = [g \in GameIDs |->
               IF g = "g1" /\ open THEN gameState_AwaitingAnswer
               ELSE gameState_AwaitingQuestion]
        /\ gameStateMutex = [g \in GameIDs |-> 0]
        /\ questionAnswerPairs = [g \in GameIDs |->
               IF g = "g1" THEN OldPairs(n, open) ELSE <<>>]
        /\ allResponsesHTML = [g \in GameIDs |->
               IF g = "g1" THEN RenderItems(OldPairs(n, open)) ELSE <<>>]
        /\ sseClients = [g \in GameIDs |-> <<>>]
        /\ sseClientsMutex = [g \in GameIDs |-> 0]
        /\ client = [c \in Clients |-> IdleClient]
        /\ req = [r \in Reqs |->
               IF r = 1 THEN started(t1) ELSE IF r = 2 THEN started(t2)
               ELSE IdleReq]
        /\ storeCount = [g \in GameIDs |->
               IF g = "g1" THEN n + Len(OldPairs(n, open)) ELSE 0]
        /\ cleanup = [g \in GameIDs |-> "none"]

NextRace == HandlerStep

SpecRace == InitRace /\ [][NextRace]_vars

\* ------------------------------------------------ the registry with a subscriber
\* Games created and deleted by their timers while one client subscribes to
\* a game and pages are requested.  A writer waiting for gameMapMutex.Lock
\* is not a state of its own here (sync.RWMutex holds back new readers
\* while a writer waits; leaving that out only allows more requests).
NextSiblings ==
    \/ \E g \in GameIDs, k \in Keys : newGame(g, k)
    \/ \E g \in GameIDs : deleteGame(g)
    \/ Tick
    \/ SubscribeFeed
    \/ ClientStep
    \/ \E r \in AuthReqs, g \in GameIDs :
           \E jar \in GameJars(g) : renderGameBase(r, g, jar)
    \/ \E r \in AuthReqs, g \in GameIDs : handleGameNotFound(r, g)
    \/ \E r \in AuthReqs : forget(r)

SpecSiblings == InitMaster /\ [][NextSiblings]_vars

\* ------------------------------------- the game with renderings that can fail
\* The game with one subscriber, ExecuteTemplate free to return an error.
RenderFailure == \E r \in Reqs : renderFails(r) \/ verdictRenderFails(r)

NextRender == NextFeed \/ RenderFailure

SpecRender == Init /\ [][NextRender]_vars

\* ------------------------------------------------ the game with distinct texts
\* The game with no subscribers, every submission carrying one of two texts
\* that are not empty, so that a turn written twice shows.  The two verdict
\* handlers treat the turns alike; one of them is enough here.
TurnTexts == {"x", "y"}

SubmitText(R, T) == \E r \in R, g \in GameIDs, text \in T :
                 \E jar \in GameJars(g) : handleNewResponse(r, g, text, jar)

NextTurns ==
    \/ SubmitText(Reqs, TurnTexts)
    \/ VerdictCorrect(Reqs)
    \/ HandlerStep
    \/ VerdictStep

SpecTurns == Init /\ [][NextTurns]_vars

\* ------------------------------------------- every operation on one game
\* Submissions and verdicts with one subscriber, gameCleanup, the page of
\* the game, and requests for an id that is not in the registry.
NextFrame ==
    \/ NextShutdown
    \/ \E r \in HubReqs, g \in GameIDs :
           \E jar \in GameJars(g) : renderGameBase(r, g, jar)
    \/ \E r \in HubReqs, g \in GameIDs : handleGameNotFound(r, g)

SpecFrame == Init /\ [][NextFrame]_vars

\* ------------------------------------------------ the game and the credentials
\* What a browser can present to game g, one cookie jar for each way the
\* check can fail, and the jar that passes: no cookie; the token newGame
\* signed, under the name the check reads (it expires with the game) and
\* under the name newGame set; a string that is no token; a token signed
\* with another key, or by method none; a token that expires early; a
\* token of another issuer, and of another subject.
CredJars(g) ==
    LET key == oracleJWTKey[g]
        late == MaxTime + TickHours
        other == CHOOSE h \in GameIDs : h # g
    IN {NoCookies,
        OneCookie(g, oracleCookie[g].value),
        {oracleCookie[g]},
        OneCookie(g, NoToken),
        OneCookie(g, Token("HS512", CHOOSE k \in Keys : k # key, g, "oracle", late)),
        OneCookie(g, Token("none", key, g, "oracle", late)),
        OneCookie(g, Token("HS512", key, g, "oracle", TickHours)),
        OneCookie(g, Token("HS512", key, other, "oracle", late)),
        OneCookie(g, Token("HS512", key, g, "guesser", late))}

\* Two requests, each with any of the credentials.
CredReqs == {1, 2}

\* Pages, submissions and verdicts under every credential, the clock
\* running so that tokens expire.
NextCred ==
    \/ \E r \in CredReqs, g \in GameIDs, text \in Texts :
           \E jar \in CredJars(g) : handleNewResponse(r, g, text, jar)
    \/ \E r \in CredReqs, g \in GameIDs :
           \E jar \in CredJars(g) : oracleVerdictCorrect(r, g, jar)
    \/ \E r \in CredReqs, g \in GameIDs :
           \E jar \in CredJars(g) : oracleVerdictIncorrect(r, g, jar)
    \/ \E r \in CredReqs, g \in GameIDs :
           \E jar \in CredJars(g) : renderGameBase(r, g, jar)
    \/ HandlerStep
    \/ VerdictStep
    \/ Tick

SpecCred == Init /\ [][NextCred]_vars

\* ------------------------------------------------------------- two games
\* Game "g1" was created at time 0 and has up to MaxOld answered turns;
\* game "g2" was created one tick later and is new.  It is the hour at
\* which the deletion timer of "g1" fires.
InitPair ==
    \E n \in 0..MaxOld :
        /\ now = game_maxDuration
        /\ gameMap = {"g1", "g2"}
        /\ expiryAt = [g \in GameIDs |->
               IF g = "g1" THEN game_maxDuration
               ELSE TickHours + game_maxDuration]
        /\ oracleCookie = [g \in GameIDs |->
               IF g = "g1" THEN OracleCookie("g1", "k1", 0)
                           ELSE OracleCookie("g2", "k2", TickHours)]
        /\ oracleJWTKey = [g \in GameIDs |-> IF g = "g1" THEN "k1" ELSE "k2"]
        /\ gameState = [g \in GameIDs |-> gameState_AwaitingQuestion]
        /\ gameStateMutex = [g \in GameIDs |-> 0]
        /\ questionAnswerPairs = [g \in GameIDs |->
               IF g = "g1" THEN OldPairs(n, FALSE) ELSE <<>>]
        /\ allResponsesHTML = [g \in GameIDs |->
               IF g = "g1" THEN RenderItems(OldPairs(n, FALSE)) ELSE <<>>]
        /\ sseClients = [g \in GameIDs |-> <<>>]
        /\ sseClientsMutex = [g \in GameIDs |-> 0]
        /\ client = [c \in Clients |-> IdleClient]
        /\ req = [r \in Reqs |-> IdleReq]
        /\ storeCount = [g \in GameIDs |-> IF g = "g1" THEN 2 * n ELSE 0]
        /\ cleanup = [g \in GameIDs |-> "none"]

\* Two requests, each to either game.
PairReqs == {1, 2}

\* Every operation of a game, on either of the two games, with one
\* subscriber, and the deletion timers.
NextPair ==
    \/ SubmitText(PairReqs, {"x"})
    \/ VerdictCorrect(PairReqs)
    \/ HandlerStep
    \/ VerdictStep
    \/ SendStepFeed
    \/ SubscribeFeed
    \/ ClientStep
    \/ Cleanup
    \/ \E g \in GameIDs : deleteGame(g)

SpecPair == InitPair /\ [][NextPair]_vars

\* ------------------------------------------------ one publish over any list
Range(seq) == {seq[k] : k \in 1..Len(seq)}

\* The client lists a game can have: the clients that subscribed, in any
\* order (splices reorder the list).
ClientLists ==
    {L \in UNION {[1..n -> 1..n] : n \in 0..MaxClients} :
        \A a \in DOMAIN L, b \in DOMAIN L : L[a] = L[b] => a = b}

\* Game "g1" after its first question was accepted, request 1 about to
\* call sendClientsResponseHTML from handleNewResponse, having stored the
\* rendering of the question, or from a verdict handler, having written
\* GameOver and appended the verdict; the clients on the list have their
\* initial rendering, and any of them may have gone away since.
InitPrune ==
    \E L \in ClientLists, gone \in SUBSET Clients,
       kind \in {"submit", "correct", "incorrect"} :
        LET pairs == << [Index |-> 1, Question |-> "x", Answer |-> ""] >>
            over == kind # "submit"
        IN
        /\ gone \subseteq Range(L)
        /\ now = 0
        /\ gameMap = {"g1"}
        /\ expiryAt = [g \in GameIDs |-> IF g = "g1" THEN game_maxDuration ELSE 0]
        /\ oracleCookie = [g \in GameIDs |->
               IF g = "g1" THEN OracleCookie("g1", "k1", 0) ELSE NoCookie]
        /\ oracleJWTKey = [g \in GameIDs |-> IF g = "g1" THEN "k1" ELSE "nokey"]
        /\ gameState = [g \in GameIDs |->
               IF g # "g1" THEN gameState_AwaitingQuestion
               ELSE IF over THEN gameState_GameOver
               ELSE gameState_AwaitingAnswer]
        /\ gameStateMutex = [g \in GameIDs |-> 0]
        /\ questionAnswerPairs = [g \in GameIDs |->
               IF g = "g1" THEN pairs ELSE <<>>]
        /\ allResponsesHTML = [g \in GameIDs |->
               IF g # "g1" THEN <<>>
               ELSE IF over
               THEN RenderItems(pairs) \o RenderGameOver(kind = "correct")
               ELSE RenderItems(pairs)]
        /\ sseClients = [g \in GameIDs |-> IF g = "g1" THEN L ELSE <<>>]
        /\ sseClientsMutex = [g \in GameIDs |-> 0]
        /\ client = [c \in Clients |->
               IF c \in Range(L)
               THEN [IdleClient EXCEPT !.pc = "wait", !.game = "g1",
                        !.ctxDone = c \in gone,
                        !.received = << Delivery("init", <<>>, 0) >>]
               ELSE IdleClient]
        /\ req = [r \in Reqs |->
               IF r = 1
               THEN [IdleReq EXCEPT !.pc = "send", !.kind = kind,
                        !.game = "g1", !.isOracle = over,
                        !.jar = IF over
                                THEN OneCookie("g1", OracleToken("g1", "k1", 0))
                                ELSE NoCookies,
                        !.status = IF over THEN 0 ELSE StatusOK]
               ELSE IdleReq]
        /\ storeCount = [g \in GameIDs |->
               IF g # "g1" THEN 0 ELSE IF over THEN 2 ELSE 1]
        /\ cleanup = [g \in GameIDs |-> "none"]

\* The publish, and clients that go away while it runs.
NextPrune ==
    \/ \E r \in Reqs : sendLock(r)
    \/ SendStep
    \/ \E c \in Clients : disconnect(c)

SpecPrune == InitPrune /\ [][NextPrune]_vars

\* ================================================================== claims
Verdicts == {"correct", "incorrect"}

\* The turns of game g that have no answer.
OpenTurns(g) ==
    {k \in 1..Len(questionAnswerPairs[g]) : questionAnswerPairs[g][k].Answer = ""}

\* C1: in every reachable state of a game, whatever the sequence and
\* interleaving of submissions, at most one turn has no answer.
C1_AtMostOneOpenTurn ==
    \A g \in GameIDs : Cardinality(OpenTurns(g)) <= 1

\* C1 witness: a second question has been appended after an answered turn.
C1_Witness ==
    \E g \in GameIDs :
        /\ Len(questionAnswerPairs[g]) = 2
        /\ OpenTurns(g) = {2}

\* The turns that were there before the race.
OldTurns(g) ==
    {k \in 1..Len(questionAnswerPairs[g]) :
        questionAnswerPairs[g][k].Question = "old"}

RaceDone == \A r \in RaceReqs : req[r].pc = "done"

\* C2: of two submissions of the awaited kind racing on one game exactly one
\* succeeds and one is rejected with 400; two questions leave exactly one
\* new, open turn, two answers leave exactly one answer on the open turn and
\* no new turn.
C2_OneWinsOneRejected ==
    LET P == questionAnswerPairs["g1"]
        n == Len(P)
        old == Cardinality(OldTurns("g1"))
    IN
    /\ n <= old + 1
    /\ RaceDone =>
          /\ Cardinality({r \in RaceReqs : req[r].status = StatusOK}) = 1
          /\ Cardinality({r \in RaceReqs : req[r].status = StatusBadRequest}) = 1
          /\ IF req[1].isOracle
             THEN /\ n = old
                  /\ OpenTurns("g1") = {}
                  /\ P[n].Answer \in RaceTexts
                  /\ gameState["g1"] = gameState_AwaitingQuestion
             ELSE /\ n = old + 1
                  /\ OpenTurns("g1") = {n}
                  /\ P[n].Question \in RaceTexts
                  /\ P[n].Index = n
                  /\ gameState["g1"] = gameState_AwaitingAnswer

\* C2 witness: both racing questions have returned, after an answered turn.
C2_Witness ==
    /\ RaceDone
    /\ ~req[1].isOracle
    /\ Len(questionAnswerPairs["g1"]) = 2
    /\ req[2].status = StatusOK

\* A verdict request of game g has returned with success.
ResolveCompleted(g) ==
    \E v \in Reqs :
        /\ req[v].kind \in Verdicts
        /\ req[v].game = g
        /\ req[v].pc = "done"
        /\ req[v].status = StatusOK

\* C3: once a verdict request has completed successfully, every submit or
\* verdict request that starts afterwards is rejected at once (400 or 401)
\* and leaves the game over and its turns unchanged.
C3_RejectedAfterResolve ==
    [][\A r \in Reqs :
          (/\ req[r].pc = "idle"
           /\ req'[r].pc # "idle"
           /\ ResolveCompleted(req'[r].game))
          => (/\ req'[r].pc = "done"
              /\ req'[r].status \in {StatusBadRequest, StatusUnauthorized}
              /\ gameState'[req'[r].game] = gameState_GameOver
              /\ UNCHANGED questionAnswerPairs)]_vars

\* C4: once a game is over it stays over, and no turn is appended or
\* answered afterwards, also with a submission in flight past its state
\* check.
C4_EndedAbsorbing ==
    [][\A g \in GameIDs :
          gameState[g] = gameState_GameOver
          => (/\ gameState'[g] = gameState_GameOver
              /\ questionAnswerPairs'[g] = questionAnswerPairs[g])]_vars

\* A verdict request that passed both checks (it is not answered 400 or 401).
VerdictSucceeded(r) ==
    /\ req[r].kind \in Verdicts
    /\ \/ req[r].pc \in {"verdictWrite", "verdictStore", "send", "sendLoop", "return"}
       \/ req[r].pc = "done" /\ req[r].status = StatusOK

OverFragments(g) ==
    {k \in 1..Len(allResponsesHTML[g]) : allResponsesHTML[g][k][1] = "over"}

\* C5: of the privileged verdict requests of one game at most one succeeds,
\* and the stored rendering holds at most one verdict.
C5_SingleVerdict ==
    \A g \in GameIDs :
        /\ Cardinality({r \in Reqs : VerdictSucceeded(r) /\ req[r].game = g}) <= 1
        /\ Cardinality(OverFragments(g)) <= 1

\* C6: a verdict request whose credential does not verify takes one step
\* only, is answered 401 and changes nothing of the game, whatever the
\* game's state; a verdict request that verifies and finds the game over is
\* answered 400 and changes nothing.
C6_RefusedVerdictChangesNothing ==
    [][\A r \in Reqs :
          (req'[r] # req[r] /\ req'[r].kind \in Verdicts)
          => LET g == req'[r].game
                 oracle == checkRequestFromOracle(g, req'[r].jar, now)
             IN
             /\ ~oracle =>
                   /\ req[r].pc = "idle"
                   /\ req'[r].pc = "done"
                   /\ req'[r].status = StatusUnauthorized
                   /\ UNCHANGED gameVars
             /\ (oracle /\ req[r].pc = "idle"
                        /\ gameState[g] = gameState_GameOver) =>
                   /\ req'[r].pc = "done"
                   /\ req'[r].status = StatusBadRequest
                   /\ UNCHANGED gameVars]_vars

\* C6 witness: in a game that is over, one verdict request was answered 401
\* and another 400.
C6_Witness ==
    \E g \in GameIDs, r1 \in Reqs, r2 \in Reqs :
        /\ gameState[g] = gameState_GameOver
        /\ req[r1].game = g /\ req[r2].game = g
        /\ req[r1].kind \in Verdicts /\ req[r2].kind \in Verdicts
        /\ req[r1].status = StatusUnauthorized
        /\ req[r2].status = StatusBadRequest

\* C7: a turn is appended only by a request whose credential did not verify
\* as oracle, and an answer is set only by a request whose credential did;
\* the step changes nothing else of the turns.
C7_RoutedByPrivilege ==
    [][\A g \in GameIDs :
          questionAnswerPairs'[g] # questionAnswerPairs[g]
          => LET r == gameStateMutex[g]
                 P == questionAnswerPairs[g]
                 Q == questionAnswerPairs'[g]
                 n == Len(P)
             IN
             /\ r \in Reqs
             /\ req[r].game = g
             /\ IF Len(Q) > n
                THEN /\ ~checkRequestFromOracle(g, req[r].jar, now)
                     /\ ~req[r].isOracle
                     /\ Len(Q) = n + 1
                     /\ SubSeq(Q, 1, n) = P
                     /\ Q[n + 1].Answer = ""
                ELSE /\ checkRequestFromOracle(g, req[r].jar, now)
                     /\ req[r].isOracle
                     /\ Len(Q) = n
                     /\ \A k \in 1..(n - 1) : Q[k] = P[k]
                     /\ Q[n].Question = P[n].Question
                     /\ Q[n].Answer # ""]_vars

\* C7 witness: an oracle request has answered a guesser's question.
C7_Witness ==
    \E g \in GameIDs, r1 \in Reqs, r2 \in Reqs :
        /\ req[r1].kind = "submit" /\ req[r1].isOracle
        /\ req[r1].pc = "done" /\ req[r1].status = StatusOK
        /\ req[r2].kind = "submit" /\ ~req[r2].isOracle
        /\ req[r2].pc = "done" /\ req[r2].status = StatusOK
        /\ req[r1].game = g /\ req[r2].game = g
        /\ Len(questionAnswerPairs[g]) = 1
        /\ OpenTurns(g) = {}

\* Game h has been created (newGame has set its cookie).
Created(h) == oracleCookie[h] # NoCookie

\* C8: the check answers false when the cookie is missing, when the token is
\* signed with another key than the game's, has another issuer than the
\* game id, another subject than "oracle", or is expired; and the token
\* issued for one game never verifies in a game of another id.
C8_VerifyRejects ==
    [][\A r \in Reqs :
          (req[r].pc = "idle" /\ req'[r].kind = "base")
          => LET g == req'[r].game
                 jar == req'[r].jar
             IN
             IF ErrNoCookie(jar, g) THEN ~req'[r].isOracle
             ELSE LET tok == CookieValue(jar, g) IN
                  /\ (\/ tok.key # oracleJWTKey[g]
                      \/ tok.iss # g
                      \/ tok.sub # "oracle"
                      \/ ~(now < tok.exp)) => ~req'[r].isOracle
                  /\ \A h \in GameIDs \ {g} :
                        (Created(h) /\ tok = oracleCookie[h].value)
                        => ~req'[r].isOracle]_vars

\* C8 witness: the token issued for another game, signed with a key equal to
\* this game's key, was presented under this game's cookie name and refused.
C8_Witness ==
    \E g \in GameIDs, h \in GameIDs, r \in AuthReqs :
        /\ g # h
        /\ {g, h} \subseteq gameMap
        /\ oracleJWTKey[g] = oracleJWTKey[h]
        /\ now < oracleCookie[h].value.exp
        /\ req[r].kind = "base"
        /\ req[r].game = g
        /\ req[r].jar = OneCookie(g, oracleCookie[h].value)
        /\ ~req[r].isOracle

\* C9: a request that presents, unchanged and before its expiry, the cookie
\* newGame set for the game is recognised as the oracle.
C9_CreatorIsOracle ==
    \A r \in Reqs :
        (/\ req[r].kind = "base"
         /\ req[r].status = StatusOK
         /\ req[r].jar = {oracleCookie[req[r].game]}
         /\ now < oracleCookie[req[r].game].value.exp)
        => req[r].isOracle

\* C10: when sendClientsResponseHTML returns, every client it found alive
\* got the same payload exactly once and these are the clients left in the
\* list; every client it found done got nothing from it, has its channel
\* closed and is not in the list.
C10_FanOut ==
    [][\A r \in Reqs :
          (req[r].pc # "return" /\ req'[r].pc = "return"
              /\ req'[r].status # StatusInternalServerError)
          => LET S == req'[r].sent
                 g == req'[r].game
                 got == {S[a][1] : a \in 1..Len(S)}
             IN
             /\ \A a, b \in 1..Len(S) : S[a][2] = S[b][2]
             /\ \A a, b \in 1..Len(S) : a # b => S[a][1] # S[b][1]
             /\ got = Range(sseClients'[g])
             /\ \A c \in req'[r].pruned :
                   /\ c \notin got
                   /\ client'[c].closed
                   /\ c \notin Range(sseClients'[g])]_vars

\* C11: every subscriber receives renderings in the order in which they
\* were stored: of two payloads it received, the initial one included, the
\* later received is not a rendering that was stored before the earlier
\* received one.
C11_PublishOrder ==
    \A c \in Clients :
        LET R == client[c].received IN
        \A a, b \in 1..Len(R) : a < b => R[a].ver <= R[b].ver

\* C12: the first payload a subscriber receives is the initial send of its
\* own subscribe request, not an update of a publish; in a game where
\* nothing was stored yet it is the empty rendering.
C12_InitialFirst ==
    \A c \in Clients :
        LET R == client[c].received IN
        Len(R) > 0 =>
            /\ R[1].from = "init"
            /\ R[1].ver = 0 => R[1].html = <<>>

\* The payloads client c received from publishes of submissions.
UpdatesReceived(c) ==
    {a \in 1..Len(client[c].received) : client[c].received[a].from = "submit"}

\* The initial rendering client c received, if any.
InitialReceived(c) ==
    {a \in 1..Len(client[c].received) : client[c].received[a].from = "init"}

\* Client c is connected: its initial rendering is sent and its context is
\* not done.
Connected(c) == client[c].pc = "wait" /\ ~client[c].ctxDone

C14_NoSendOnClosed ==
    \A c \in Clients : ~client[c].sendOnClosed

\* C15: each subscriber is taken out of the client list at most once and
\* close is called on its channel at most once.
C15_CloseOnce ==
    \A c \in Clients : client[c].removals <= 1 /\ client[c].closes <= 1

\* C16: a call of gameCleanup returns without a panic and leaves the client
\* list empty and every client that was in it with its channel closed and
\* its context done.
C16_CleanupCompletes ==
    [][\A g \in GameIDs :
          (cleanup[g] = "none" /\ cleanup'[g] # "none")
          => (/\ cleanup'[g] = "returned"
              /\ sseClients'[g] = <<>>
              /\ \A c \in Range(sseClients[g]) :
                    client'[c].closed /\ client'[c].ctxDone)]_vars

\* C17: the step that deletes a game from the registry is taken when its
\* time to live has elapsed and leaves the game without clients in its list
\* and without an open channel.
C17_ExpiryShutsDown ==
    [][\A g \in GameIDs :
          (g \in gameMap /\ g \notin gameMap')
          => (/\ now >= expiryAt[g]
              /\ sseClients'[g] = <<>>
              /\ \A c \in Clients :
                    (client[c].pc # "idle" /\ client[c].game = g)
                    => client'[c].closed)]_vars

\* C18: a game whose verdict request has succeeded is in the registry as
\* long as its time to live has not elapsed; a step that takes a game out of
\* the registry takes out that game only, when its time to live has
\* elapsed, and is no step of a request.
C18_OnlyExpiryDeletes ==
    /\ [](\A g \in GameIDs :
             (ResolveCompleted(g) /\ now < expiryAt[g]) => g \in gameMap)
    /\ [][\A g \in GameIDs :
             (g \in gameMap /\ g \notin gameMap')
             => (/\ now >= expiryAt[g]
                 /\ gameMap' = gameMap \ {g}
                 /\ req' = req
                 /\ gameState' = gameState)]_vars

\* C18 witness: a game with a successful verdict was found by a later
\* request, which was refused with 400, and has now been deleted by its
\* timer.
C18_Witness ==
    \E g \in GameIDs, r \in Reqs :
        /\ ResolveCompleted(g)
        /\ req[r].kind = "submit" /\ req[r].game = g
        /\ req[r].status = StatusBadRequest
        /\ gameState[g] = gameState_GameOver
        /\ g \notin gameMap
        /\ now >= expiryAt[g]

\* C19: when a verdict request of a game has succeeded and no request is in
\* flight, the stored rendering of the game contains a verdict.
C19_VerdictInRendering ==
    \A g \in GameIDs :
        (ResolveCompleted(g) /\ NoRequestInFlight) => OverFragments(g) # {}

\* The registry entry of game g: what newGame writes for it.
Entry(g) == <<expiryAt[g], oracleCookie[g], oracleJWTKey[g]>>

\* C20: newGame writes a registry entry only for an id that is not in the
\* registry; it adds that id and leaves the entries of the games in the
\* registry as they are.
C20_FreshID ==
    [][\A g \in GameIDs :
          (Entry(g)' # Entry(g) \/ (g \notin gameMap /\ g \in gameMap'))
          => (/\ g \notin gameMap
              /\ gameMap' = gameMap \cup {g}
              /\ \A h \in gameMap : Entry(h)' = Entry(h))]_vars

\* C20 witness: a game was created while another was in the registry, with
\* the same key drawn for both.
C20_Witness ==
    /\ gameMap = GameIDs
    /\ \A g \in GameIDs : Created(g)
    /\ \E g \in GameIDs, h \in GameIDs :
          /\ g # h
          /\ oracleJWTKey[g] = oracleJWTKey[h]
          /\ expiryAt[g] < expiryAt[h]

\* C21: a request for an id that is not in the registry, whether the id was
\* never created or its game has expired, is answered 404 in that one step,
\* and the step changes no registry entry and no game's state, turns,
\* stored rendering or client list.
C21_UnknownGameNotFound ==
    [][\A r \in Reqs :
          (req[r].pc = "idle" /\ req'[r].pc # "idle"
              /\ req'[r].game \notin gameMap)
          => (/\ req'[r].pc = "done"
              /\ req'[r].status = StatusNotFound
              /\ UNCHANGED <<registryVars, gameVars>>)]_vars

\* C21 witness: one request for an id never created and one for a game
\* deleted by its timer were both answered 404, the deleted game's data
\* still listing the client that had subscribed to it.
C21_Witness ==
    \E r \in Reqs, q \in Reqs, g \in GameIDs, h \in GameIDs :
        /\ req[r].pc = "done" /\ req[r].game = g
        /\ req[r].status = StatusNotFound
        /\ Created(g) /\ g \notin gameMap /\ sseClients[g] # <<>>
        /\ req[q].pc = "done" /\ req[q].game = h
        /\ req[q].status = StatusNotFound
        /\ ~Created(h)

\* C22: while a client is connected to the event stream of one game, the
\* registry is not blocked: a game can be created under an id that is free,
\* and another game whose time to live has elapsed can be deleted.
C22_RegistryNotBlocked ==
    \A c \in Clients, b \in GameIDs :
        (Connected(c) /\ client[c].game # b)
        => /\ (b \in gameMap /\ TimerFired(b)) => ENABLED deleteGame(b)
           /\ (b \notin gameMap) => ENABLED newGame(b, "k1")

\* C23: when the template execution of a submission or of a verdict fails,
\* the handler ends there: the step leaves the stored rendering, the client
\* list and every client's channel as they are, and the request takes no
\* further step, so no client receives a payload for it.
C23_RenderFailureAborts ==
    /\ [][\A r \in Reqs :
             (~req[r].renderErr /\ req'[r].renderErr)
             => (/\ req'[r].pc = "done"
                 /\ UNCHANGED <<allResponsesHTML, storeCount, sseClients,
                                sseClientsMutex, client>>)]_vars
    /\ [][\A r \in Reqs : req[r].renderErr => req'[r] = req[r]]_vars

\* C23 witness: a question was accepted and a verdict given, the rendering
\* of both failed, and the connected client has its initial rendering only,
\* the stored rendering still empty.
C23_Witness ==
    \E r \in Reqs, v \in Reqs, c \in Clients :
        /\ req[r].renderErr /\ req[r].kind = "submit"
        /\ req[v].renderErr /\ req[v].kind \in Verdicts
        /\ req[r].game = req[v].game
        /\ Connected(c) /\ client[c].game = req[r].game
        /\ Len(client[c].received) = 1
        /\ questionAnswerPairs[req[r].game] # <<>>
        /\ gameState[req[r].game] = gameState_GameOver
        /\ allResponsesHTML[req[r].game] = <<>>

\* C24: a submission answered 400 (empty text, out of turn, or after the
\* game has ended) is finished by that step, which changes nothing of any
\* game: not the state, the turns, the stored rendering, the client list or
\* any channel; and the finished request takes no further step, so it
\* publishes nothing.
C24_RejectionChangesNothing ==
    /\ [][\A r \in Reqs :
             (req'[r].kind = "submit" /\ req'[r].status = StatusBadRequest
                 /\ req[r].status # StatusBadRequest)
             => (req'[r].pc = "done" /\ UNCHANGED gameVars)]_vars
    /\ [][\A r \in Reqs :
             (req[r].kind = "submit" /\ req[r].status = StatusBadRequest)
             => req'[r] = req[r]]_vars

\* C24 witness: a question was accepted and published to the connected
\* client; a second question, not empty, was refused while the answer was
\* awaited, and the client has the initial rendering and one update.
C24_Witness ==
    \E r \in Reqs, q \in Reqs, c \in Clients :
        /\ req[q].kind = "submit" /\ req[q].pc = "done"
        /\ req[q].status = StatusOK
        /\ req[r].kind = "submit" /\ req[r].pc = "done"
        /\ req[r].status = StatusBadRequest
        /\ req[r].text # "" /\ ~req[r].isOracle
        /\ req[r].game = req[q].game
        /\ gameState[req[r].game] = gameState_AwaitingAnswer
        /\ Len(questionAnswerPairs[req[r].game]) = 1
        /\ Connected(c) /\ client[c].game = req[r].game
        /\ Len(client[c].received) = 2

\* C25: a submission with empty text is answered 400 on arrival, whatever
\* the state of the game and whoever sends it, and changes nothing of the
\* game; no request past the first check carries an empty text; every turn
\* has a question that is not empty, and every turn before the last has
\* an answer that is not empty.
C25_EmptyTextRejected ==
    /\ [][\A r \in Reqs :
             (req[r].pc = "idle" /\ req'[r].kind = "submit"
                 /\ req'[r].text = "")
             => (/\ req'[r].pc = "done"
                 /\ req'[r].status = StatusBadRequest
                 /\ UNCHANGED gameVars)]_vars
    /\ [](\A r \in Reqs :
             req[r].pc \in {"addNextQuestion", "addNextQuestionWrite",
                            "addNextAnswer", "addNextAnswerWrite"}
             => req[r].text # "")
    /\ [](\A g \in GameIDs : \A k \in 1..Len(questionAnswerPairs[g]) :
             /\ questionAnswerPairs[g][k].Question # ""
             /\ k < Len(questionAnswerPairs[g])
                => questionAnswerPairs[g][k].Answer # "")

\* C25 witness: with a question open, an empty answer of the oracle, whose
\* turn it is, and an empty question of a guesser were both refused.
C25_Witness ==
    \E r \in Reqs, q \in Reqs, g \in GameIDs :
        /\ req[r].kind = "submit" /\ req[r].game = g /\ req[r].isOracle
        /\ req[r].text = "" /\ req[r].status = StatusBadRequest
        /\ req[q].kind = "submit" /\ req[q].game = g /\ ~req[q].isOracle
        /\ req[q].text = "" /\ req[q].status = StatusBadRequest
        /\ Len(questionAnswerPairs[g]) = 1
        /\ questionAnswerPairs[g][1].Question # ""
        /\ gameState[g] = gameState_AwaitingAnswer

\* C26: an answer is written to a turn only in a step that starts in state
\* AwaitingAnswer, and a question is appended only in a step that starts in
\* state AwaitingQuestion; so in a game with no turns no answer is written.
C26_OnlyInAwaitedState ==
    [][\A g \in GameIDs :
          LET old == questionAnswerPairs[g]
              new == questionAnswerPairs[g]'
          IN /\ Len(new) > Len(old)
                => gameState[g] = gameState_AwaitingQuestion
             /\ (\E k \in 1..Len(old) : k <= Len(new) /\ new[k].Answer # old[k].Answer)
                => gameState[g] = gameState_AwaitingAnswer]_vars

\* C27 as stated: a turn without an answer exists only in state
\* AwaitingAnswer and is then the last turn; in states AwaitingQuestion and
\* GameOver every turn has its answer.
C27_OpenOnlyAwaitingAnswer ==
    \A g \in GameIDs :
        /\ OpenTurns(g) \subseteq {Len(questionAnswerPairs[g])}
        /\ gameState[g] # gameState_AwaitingAnswer => OpenTurns(g) = {}

\* C27 amended: a turn without an answer is the last turn, and it exists
\* only in state AwaitingAnswer or in state GameOver (the verdict was given
\* while the answer was awaited); in state AwaitingQuestion every turn has
\* its answer.
C27_OpenOnlyAwaitingAnswerOrOver ==
    \A g \in GameIDs :
        /\ OpenTurns(g) \subseteq {Len(questionAnswerPairs[g])}
        /\ gameState[g] = gameState_AwaitingQuestion => OpenTurns(g) = {}

\* C27 witness: a question was asked and the oracle gave its verdict on it;
\* the oracle's answer sent afterwards was refused: the game is over, no
\* request is in flight, and the last turn has no answer.
C27_Witness ==
    \E g \in GameIDs, r \in Reqs :
        /\ gameState[g] = gameState_GameOver
        /\ NoRequestInFlight
        /\ ResolveCompleted(g)
        /\ req[r].kind = "submit" /\ req[r].game = g /\ req[r].isOracle
        /\ req[r].text # "" /\ req[r].status = StatusBadRequest
        /\ Len(questionAnswerPairs[g]) = 1
        /\ OpenTurns(g) = {1}

\* C28: the i-th turn of a game has Index i, and a step only appends to the
\* turns: their number never decreases, and every turn stays at its place
\* with its index and its question.
C28_AppendOnly ==
    /\ [](\A g \in GameIDs : \A k \in 1..Len(questionAnswerPairs[g]) :
             questionAnswerPairs[g][k].Index = k)
    /\ [][\A g \in GameIDs :
             /\ Len(questionAnswerPairs[g]') >= Len(questionAnswerPairs[g])
             /\ Len(questionAnswerPairs[g]') <= Len(questionAnswerPairs[g]) + 1
             /\ \A k \in 1..Len(questionAnswerPairs[g]) :
                    /\ questionAnswerPairs[g]'[k].Index
                          = questionAnswerPairs[g][k].Index
                    /\ questionAnswerPairs[g]'[k].Question
                          = questionAnswerPairs[g][k].Question]_vars

\* C28 witness: a game has two turns, the first answered, with indices 1
\* and 2.
C28_Witness ==
    \E g \in GameIDs :
        /\ Len(questionAnswerPairs[g]) = 2
        /\ questionAnswerPairs[g][1].Index = 1
        /\ questionAnswerPairs[g][1].Answer # ""
        /\ questionAnswerPairs[g][2].Index = 2

\* C29: a turn that has its answer is never changed again, in index,
\* question or answer; and the question of a turn never changes after the
\* turn was appended.
C29_AnsweredTurnFrozen ==
    [][\A g \in GameIDs : \A k \in 1..Len(questionAnswerPairs[g]) :
          /\ k <= Len(questionAnswerPairs[g]')
          /\ questionAnswerPairs[g]'[k].Question
                = questionAnswerPairs[g][k].Question
          /\ questionAnswerPairs[g][k].Answer # ""
             => questionAnswerPairs[g]'[k] = questionAnswerPairs[g][k]]_vars

\* C29 witness: the first turn has its answer, and a second turn was asked
\* since, with another question than the first, and awaits its answer.
C29_Witness ==
    \E g \in GameIDs :
        /\ Len(questionAnswerPairs[g]) = 2
        /\ questionAnswerPairs[g][1].Answer # ""
        /\ questionAnswerPairs[g][2].Question # questionAnswerPairs[g][1].Question
        /\ questionAnswerPairs[g][2].Answer = ""
        /\ gameState[g] = gameState_AwaitingAnswer

\* C30: the state or the turns of a game change only in the write step of
\* an accepted question of a guesser, of an accepted answer of the oracle,
\* or of a verdict of the oracle; no other step (the page, a subscription,
\* a send to a client, pruning, gameCleanup, a lookup that misses, the check
\* of the token) changes them.
C30_OnlyAcceptedOperationsWrite ==
    [][\A g \in GameIDs :
          (gameState[g]' # gameState[g]
              \/ questionAnswerPairs[g]' # questionAnswerPairs[g])
          => \E r \in Reqs :
                /\ req[r].game = g
                /\ req'[r].pc # req[r].pc
                /\ \/ /\ req[r].pc = "addNextQuestionWrite"
                      /\ ~req[r].isOracle
                      /\ req'[r].status = StatusOK
                   \/ /\ req[r].pc = "addNextAnswerWrite"
                      /\ req[r].isOracle
                      /\ req'[r].status = StatusOK
                   \/ /\ req[r].pc = "verdictWrite"
                      /\ req[r].kind \in Verdicts
                      /\ req[r].isOracle]_vars

\* C30 witness: a question was accepted and sent to the subscriber, the page
\* was rendered for the oracle, and gameCleanup has run; the game has its
\* one open turn and awaits the answer.
C30_Witness ==
    \E r \in Reqs, q \in Reqs, c \in Clients, g \in GameIDs :
        /\ req[r].kind = "submit" /\ req[r].game = g /\ req[r].pc = "done"
        /\ req[r].status = StatusOK
        /\ req[q].kind = "base" /\ req[q].game = g /\ req[q].isOracle
        /\ client[c].game = g /\ UpdatesReceived(c) # {}
        /\ cleanup[g] # "none"
        /\ gameState[g] = gameState_AwaitingAnswer
        /\ OpenTurns(g) = {1}

\* The credential of a request to game g at time t is invalid: the cookie
\* the check reads is absent, or its value is no token, is not signed by
\* HMAC with the game's key, is expired, or names another issuer or another
\* subject.
InvalidCredential(g, jar, t) ==
    \/ ~ \E c \in jar : c.name = g
    \/ LET tok == CookieValue(jar, g) IN
           \/ tok.alg # "HS512"
           \/ tok.key # oracleJWTKey[g]
           \/ t >= tok.exp
           \/ tok.iss # g
           \/ tok.sub # "oracle"

\* What the first step of a request of the given kind leaves, for a jar.
FirstStep(kind, g, text, jar) ==
    IF kind = "submit" THEN handleNewResponseFirstCheck(g, text, jar)
    ELSE IF kind = "base" THEN renderGameBaseResponse(g, jar)
    ELSE oracleVerdictChecks(g, kind = "correct", jar)

\* C31: a request that arrives with an invalid credential, of whatever
\* kind of failure, is treated as a guesser's, and what its first step
\* leaves (the response written, or the handler it goes on to) is, but for
\* the cookies kept in the record, what the same request leaves with no
\* cookie at all; the step changes nothing of the game.
C31_InvalidCredentialsAlike ==
    [][\A r \in Reqs :
          (req[r].pc = "idle" /\ req'[r].kind \in {"submit", "base"} \cup Verdicts
              /\ InvalidCredential(req'[r].game, req'[r].jar, now))
          => (/\ ~req'[r].isOracle
              /\ req'[r] = [FirstStep(req'[r].kind, req'[r].game,
                                      req'[r].text, NoCookies)
                               EXCEPT !.jar = req'[r].jar]
              /\ UNCHANGED gameVars)]_vars

\* C31 witness: a verdict sent with the game's token after its expiry was
\* refused with 401, and a submission sent with a token of another issuer
\* was taken as a guesser's question, which is now the open turn.
C31_Witness ==
    \E r \in Reqs, q \in Reqs, g \in GameIDs :
        /\ req[r].kind \in Verdicts /\ req[r].game = g
        /\ req[r].jar = OneCookie(g, oracleCookie[g].value)
        /\ req[r].status = StatusUnauthorized
        /\ req[q].kind = "submit" /\ req[q].game = g
        /\ \E c \in req[q].jar : c.name = g /\ c.value.iss # g
        /\ req[q].status = StatusOK /\ ~req[q].isOracle
        /\ gameState[g] = gameState_AwaitingAnswer
        /\ OpenTurns(g) = {1}

\* The goroutine responsesSourceSSE starts for client c, which ranges over
\* responsesChannel, is running: it was started and the channel is not
\* closed.
DeliveryTaskRunning(c) == client[c].pc # "idle" /\ ~client[c].closed

\* Nothing is under way on any game: no request is in flight and no client
\* is in its initial send.
Quiescent ==
    /\ NoRequestInFlight
    /\ \A c \in Clients : client[c].pc \notin {"init", "initSend"}

\* C32: once a client's context is done, its delivery goroutine ends without
\* a further publish or shutdown: whenever nothing is under way, so that
\* only a new request could take a step, no client whose context is done
\* has its goroutine still running.
C32_TaskEndsWithConnection ==
    \A c \in Clients :
        (Quiescent /\ client[c].ctxDone) => ~DeliveryTaskRunning(c)

\* How often client c is in the client list of game g.
Occurrences(g, c) ==
    Cardinality({k \in 1..Len(sseClients[g]) : sseClients[g][k] = c})

\* C33: a subscription appends its client at the end of its game's list in
\* one step, taken while no sendClientsResponseHTML and no gameCleanup holds
\* the list's mutex, and leaves every other slot as it is; a client that has
\* subscribed is in the list of its game exactly once until it is pruned,
\* and in no list when it is pruned or has not subscribed.
C33_SubscribeAtomic ==
    /\ [](\A c \in Clients, g \in GameIDs :
             Occurrences(g, c) =
                 IF client[c].pc # "idle" /\ client[c].game = g
                    /\ client[c].removals = 0
                 THEN 1 ELSE 0)
    /\ [][\A c \in Clients :
             (client[c].pc = "idle" /\ client'[c].pc # "idle")
             => LET g == client'[c].game IN
                /\ sseClientsMutex[g] = 0
                /\ sseClients' = [sseClients EXCEPT ![g] = Append(@, c)]]_vars

\* C33 witness: a publish has pruned the first client of a game, and the
\* second client, which subscribed before the publish returned its
\* response, is the only one in the list and is connected.
C33_Witness ==
    \E g \in GameIDs, r \in Reqs :
        /\ client[1].game = g /\ client[1].removals = 1
        /\ sseClients[g] = <<2>>
        /\ Connected(2)
        /\ req[r].pc = "return" /\ req[r].pruned = {1}

\* Request r, not refused, takes the step at pc, in which its handler writes.
Writes(r, pc) ==
    req[r].pc = pc /\ req'[r].pc # pc /\ req'[r].status \in {0, StatusOK}

\* C34: the write step of an accepted question in state AwaitingQuestion
\* with n turns leaves AwaitingAnswer and n+1 turns, the first n as they
\* were and the last with index n+1, the submitted text as question and no
\* answer; that of an accepted answer in state AwaitingAnswer leaves
\* AwaitingQuestion and the same turns but for the answer of the last, which
\* is the submitted text; that of a verdict in either awaiting state leaves
\* GameOver and the turns as they were.
C34_TransitionFunction ==
    [][\A r \in Reqs :
          LET g == req[r].game
              old == questionAnswerPairs[g]
              new == questionAnswerPairs[g]'
              n == Len(old)
          IN
          /\ (Writes(r, "addNextQuestionWrite")
                 /\ gameState[g] = gameState_AwaitingQuestion)
             => /\ gameState[g]' = gameState_AwaitingAnswer
                /\ new = Append(old, [Index |-> n + 1,
                                      Question |-> req[r].text, Answer |-> ""])
          /\ (Writes(r, "addNextAnswerWrite")
                 /\ gameState[g] = gameState_AwaitingAnswer)
             => /\ gameState[g]' = gameState_AwaitingQuestion
                /\ n > 0
                /\ new = [old EXCEPT ![n].Answer = req[r].text]
          /\ (Writes(r, "verdictWrite")
                 /\ gameState[g] # gameState_GameOver)
             => /\ gameState[g]' = gameState_GameOver
                /\ new = old]_vars

\* C34 witness: a question and its answer, of different texts, were
\* accepted, and a verdict was then given in state AwaitingQuestion.
C34_Witness ==
    \E g \in GameIDs :
        /\ NoRequestInFlight
        /\ ResolveCompleted(g)
        /\ gameState[g] = gameState_GameOver
        /\ Len(questionAnswerPairs[g]) = 1
        /\ questionAnswerPairs[g][1].Index = 1
        /\ questionAnswerPairs[g][1].Answer # ""
        /\ questionAnswerPairs[g][1].Answer # questionAnswerPairs[g][1].Question

\* What is left of the loop of request r: twice the slots not yet visited,
\* less one when the send to the current slot is under way.
LoopVariant(r) ==
    2 * (Len(sseClients[req[r].game]) - req[r].i)
        - (IF req[r].pc = "channelSend" THEN 1 ELSE 0)

\* C35: every step of the loop of sendClientsResponseHTML brings it nearer
\* its end, and the loop does not panic; when it has returned, whatever the
\* list was (empty, all clients gone, gone clients in a row or in the last
\* slot), the list has no client twice, every client that subscribed is
\* either on the list, and then it was sent the update once, or was
\* pruned, and then its context is done and it was sent nothing.
C35_PruningExact ==
    /\ [][\A r \in Reqs :
             (req[r].pc \in {"sendLoop", "channelSend"} /\ req'[r] # req[r])
             => (req'[r].pc \in {"sendLoop", "channelSend"}
                    => LoopVariant(r)' < LoopVariant(r))]_vars
    /\ [](\A r \in Reqs :
             req[r].pc \in {"return", "done"}
             => LET g == req[r].game IN
                /\ req[r].status # StatusInternalServerError
                /\ \A c \in Clients :
                      client[c].pc # "idle" =>
                         IF client[c].removals = 0
                         THEN /\ Occurrences(g, c) = 1
                              /\ Len(client[c].received) = 2
                         ELSE /\ Occurrences(g, c) = 0
                              /\ client[c].ctxDone
                              /\ client[c].closes = 1
                              /\ Len(client[c].received) = 1)

\* C35 witness: the publish has returned from a list whose first client was
\* gone and whose second was live: the list is the second client alone,
\* which has the update.
C35_Witness ==
    /\ req[1].pc = "done"
    /\ client[1].removals = 1 /\ client[1].closed
    /\ sseClients["g1"] = <<2>>
    /\ Len(client[2].received) = 2
    /\ client[2].received[2].from = "submit"
    /\ ~client[2].ctxDone

\* C36: when the concurrent accepted submissions of a game have finished
\* (no request is in flight), the stored latest rendering is the rendering
\* of the game's final turn sequence.  (The claim says the same of the last
\* payload of every connected client; those payloads are copies of the
\* stored rendering, read at game.go:196 and 356.)
C36_StoredRenderingCurrent ==
    \A g \in GameIDs :
        (NoRequestInFlight /\ AcceptedSubmissions(g) # {})
        => allResponsesHTML[g] = RenderItems(questionAnswerPairs[g])

\* C37: a submission that passed the state check of addNextAnswer (state
\* AwaitingAnswer, gameStateMutex held) finds at least one turn, so the
\* write to the last turn never indexes an empty sequence; submissions and
\* verdicts interleave freely.
C37_AnswerFindsTurn ==
    \A r \in Reqs :
        /\ req[r].pc = "addNextAnswerWrite"
              => Len(questionAnswerPairs[req[r].game]) > 0
        /\ req[r].kind = "submit" => req[r].status # StatusInternalServerError

\* An answer is past its state check while a verdict on the same game is
\* under way.
C37_Witness ==
    \E r, v \in Reqs :
        /\ req[r].pc = "addNextAnswerWrite"
        /\ req[v].kind \in Verdicts
        /\ req[v].game = req[r].game
        /\ req[v].pc \notin {"idle", "done"}

\* The data of game g that the claim C38 names.
Session(g) ==
    <<gameState[g], questionAnswerPairs[g], allResponsesHTML[g], sseClients[g]>>

\* The step is one of an operation on game g: of a request to g, of a
\* client of g, of gameCleanup of g, or of the deletion timer of g.
ActsOn(g) ==
    \/ \E r \in Reqs : req'[r] # req[r] /\ g \in {req[r].game, req'[r].game}
    \/ \E c \in Clients :
          client'[c] # client[c] /\ g \in {client[c].game, client'[c].game}
    \/ cleanup'[g] # cleanup[g]
    \/ (g \in gameMap) # (g \in gameMap')

\* C38: a step of a submission, verdict, subscription, publish or
\* gameCleanup on game a leaves the state, turns, stored rendering and
\* client list of every other game b unchanged, and b in the registry if
\* it was; the deletion timer of a takes a, whose time is up, and nothing
\* else out of the registry, and changes no game's data.
C38_SessionsIndependent ==
    [][ /\ \A a, b \in GameIDs :
              (a # b /\ ActsOn(a))
              => /\ Session(b)' = Session(b)
                 /\ (b \in gameMap') = (b \in gameMap)
        /\ \A a \in gameMap \ gameMap' :
              /\ TimerFired(a)
              /\ gameMap' = gameMap \ {a}
              /\ \A g \in GameIDs : Session(g)' = Session(g)
      ]_vars

\* Game "g1" is deleted with a turn of its own and "g2" is still
\* registered, has an accepted question and a connected client that
\* received it.
C38_Witness ==
    /\ gameMap = {"g2"}
    /\ Len(questionAnswerPairs["g2"]) = 1
    /\ questionAnswerPairs["g1"] # <<>>
    /\ questionAnswerPairs["g1"] # questionAnswerPairs["g2"]
    /\ \E c \in Clients :
          /\ Connected(c)
          /\ client[c].game = "g2"
          /\ UpdatesReceived(c) # {}

====
